---- MODULE Spec2Model ----
(***************************************************************************)
(* Turn-progression controller of poker_app_gui_pretty_v4.py (PokerGUI):   *)
(* the Tk "after" scheduler, the auto-next-hand timer, the per-step drive  *)
(* continuation (_cpu_loop) and the human action handler (_act), driven    *)
(* against a nondeterministic game engine.                                 *)
(***************************************************************************)
EXTENDS Integers, Sequences, FiniteSets, TLC

VARIABLES
    engine,              \* self.engine: hand_active, waiting_for_human, prompt
    settings,            \* self.settings
    timers,              \* Tk's pending "after" callbacks, ordered by due time
    auto_next_after_id,  \* self._auto_next_after_id (None = 0)
    buttons,             \* the action buttons whose state is "normal"
    cb,                  \* observation: the callback that ran last
    obs,                 \* observation: self.engine as that callback found it
    tr,                  \* observation: engine calls / scheduler calls it made, in order
    started,             \* observation: flips at every start_new_hand call
    fn,                  \* observation: the helper function under test, its arguments
    ret                  \* observation: what it returned

vars == <<engine, settings, timers, auto_next_after_id, buttons, cb, obs, tr, started,
          fn, ret>>

----------------------------------------------------------------------------
(* Bounds of the model *)

\* the user commands that schedule a callback are accepted only while fewer
\* than this many 10 ms callbacks are pending
MaxPending == 2

----------------------------------------------------------------------------
(* Program constants *)

StepDelay == 10        \* self.after(10, ...)
DwellDelay == 1200     \* self.after(1200, self._auto_next_hand_if_idle)
None == 0              \* the None handle; Tk's after ids are 1, 2, ...
auto_advance_hand == TRUE

Min(a, b) == IF a <= b THEN a ELSE b
Max(a, b) == IF a >= b THEN a ELSE b

----------------------------------------------------------------------------
(* The game engine (poker_engine, external): one record per snapshot *)

NoPrompt ==
    [present |-> FALSE, to_call |-> 0, min_raise_to |-> 0, you_stack |-> 0,
     you_bet_street |-> 0, pot |-> 0]

Prompt(to_call, min_raise_to, you_stack, you_bet_street, pot) ==
    [present |-> TRUE, to_call |-> to_call, min_raise_to |-> min_raise_to,
     you_stack |-> you_stack, you_bet_street |-> you_bet_street, pot |-> pot]

\* nothing to call with a short stack; a bet to call with a deep stack
Prompts == {Prompt(0, 4, 3, 0, 30), Prompt(2, 4, 20, 2, 30)}

Idle == [hand_active |-> FALSE, waiting_for_human |-> FALSE, prompt |-> NoPrompt]
Running == [hand_active |-> TRUE, waiting_for_human |-> FALSE, prompt |-> NoPrompt]
Waiting(p) == [hand_active |-> TRUE, waiting_for_human |-> TRUE, prompt |-> p]

\* PokerEngine(settings): a fresh engine has no hand in progress
PokerEngine == Idle

\* engine.start_new_hand(): resets the per-hand state, a hand is in progress
start_new_hand(e) == {Running}

\* engine.advance(): one atomic step; an automated turn may continue, hand
\* the turn to the human (prompt present) or end the hand
advance(e) ==
    IF e.hand_active /\ ~e.waiting_for_human
    THEN {Running, Idle} \cup {Waiting(p) : p \in Prompts}
    ELSE {e}

\* engine.apply_human_action(action, amount): accepted only on the human's
\* turn; the engine may reject it (state unchanged) or the hand may end
apply_human_action(e, action, amt) ==
    IF e.waiting_for_human THEN {Running, Idle, e} ELSE {e}

----------------------------------------------------------------------------
(* Settings *)

CPU_PRESETS ==
    [Beginner |-> [cpu_aggression |-> 90,  cpu_randomness |-> 65, mc_pre |-> 120, mc_post |-> 180],
     Normal   |-> [cpu_aggression |-> 100, cpu_randomness |-> 45, mc_pre |-> 220, mc_post |-> 320],
     Strong   |-> [cpu_aggression |-> 115, cpu_randomness |-> 25, mc_pre |-> 450, mc_post |-> 650],
     Pro      |-> [cpu_aggression |-> 125, cpu_randomness |-> 12, mc_pre |-> 800, mc_post |-> 1100]]

\* GameSettings(): the defaults (six players; the Normal CPU values)
GameSettings ==
    [cpu_aggression |-> 100, cpu_randomness |-> 45,
     players |-> 6, start_stack |-> 1000, sb |-> 5, bb |-> 10, seed |-> None,
     mc_iters_preflop |-> 220, mc_iters_postflop |-> 320]

----------------------------------------------------------------------------
(* The Tk scheduler: after / after_cancel *)

Timer(c, ms, id) == [cb |-> c, due |-> ms, id |-> id]

\* a handle no pending timer carries and the stored handle does not hold
FreshId(ts, h) ==
    CHOOSE n \in 1..(Len(ts) + 2) :
        /\ n # h
        /\ \A i \in 1..Len(ts) : ts[i].id # n
        /\ \A m \in 1..(n - 1) : m = h \/ \E i \in 1..Len(ts) : ts[i].id = m

\* after(ms, c): queued behind every pending callback due at or before it
After(ts, ms, c, id) ==
    LET k == Cardinality({i \in 1..Len(ts) : ts[i].due <= ms})
    IN SubSeq(ts, 1, k) \o <<Timer(c, ms, id)>> \o SubSeq(ts, k + 1, Len(ts))

\* after_cancel(id)
AfterCancel(ts, id) == SelectSeq(ts, LAMBDA t : t.id # id)

AutoTimers(ts) == {i \in 1..Len(ts) : ts[i].cb = "auto_next_hand_if_idle"}
StepTimers(ts) == {i \in 1..Len(ts) : ts[i].cb = "cpu_loop"}
ShortTimers(ts) == {i \in 1..Len(ts) : ts[i].cb # "auto_next_hand_if_idle"}

----------------------------------------------------------------------------
(* Observation events *)

Ev(op, a, n, pend, act) == [op |-> op, a |-> a, n |-> n, pend |-> pend, act |-> act]

\* the world a callback works on.  est: what estimate_win_prob does if this
\* callback's _refresh gets to it ("skipped": the hero holds no cards or has
\* no opponent left, and it is not called); exc: an exception is propagating
\* and the rest of the callback is not executed
World(ts) ==
    [engine |-> engine, timers |-> ts, id |-> auto_next_after_id,
     buttons |-> buttons, tr |-> << >>, est |-> "ok", exc |-> FALSE]

EstimateOutcomes == {"skipped", "ok", "raises"}

WorldWith(ts, est) == [World(ts) EXCEPT !.est = est]

\* an engine call that raises, leaving the engine as e
Raise(e) == [raises |-> TRUE, engine |-> e]
Failed(x) == "raises" \in DOMAIN x
RaiseEv(op) == Ev("raise", op, 0, FALSE, FALSE)

\* F applied to the value of x (x is evaluated once)
On(x, F(_)) == CHOOSE r \in {F(v) : v \in {x}} : TRUE

\* a call of the engine that leaves it as e, or raises (no try/except
\* around any engine call: the exception ends the callback)
CallEngine(w, e, ev) ==
    IF w.exc THEN w
    ELSE IF Failed(e)
    THEN [w EXCEPT !.engine = e.engine,
                   !.tr = Append(Append(@, ev), RaiseEv(ev.op)),
                   !.exc = TRUE]
    ELSE [w EXCEPT !.engine = e, !.tr = Append(@, ev)]

Schedule(w0, ms, c) ==
    On(w0, LAMBDA w :
        IF w.exc THEN w
        ELSE [w EXCEPT !.timers = After(w.timers, ms, c, FreshId(w.timers, w.id)),
                       !.tr = Append(w.tr, Ev("after", c, ms, FALSE, FALSE))])

----------------------------------------------------------------------------
(* Legal actions, amounts *)

ActionKinds == {"fold", "check", "call", "bet", "raise", "allin"}

\* the "Buttons" block enabling by to_call alone, whoever is to act
ButtonStates_any_turn(e) ==
    LET to_call == IF e.prompt.present THEN e.prompt.to_call ELSE 0
    IN IF to_call = 0 THEN ActionKinds \ {"fold", "call", "raise"}
       ELSE ActionKinds \ {"check", "bet"}

\* _refresh, the "Buttons" block: the buttons left in state "normal"
ButtonStates(e) ==
    LET can_act == e.waiting_for_human
        to_call == IF e.prompt.present THEN e.prompt.to_call ELSE 0
    IN IF ~can_act THEN {}
       ELSE IF to_call = 0 THEN ActionKinds \ {"fold", "call", "raise"}
       ELSE ActionKinds \ {"check", "bet"}

\* _legal_actions_now testing to_call < 0 for "no bet to you"
legal_actions_now_strict(e) ==
    IF ~e.hand_active \/ ~e.prompt.present THEN {}
    ELSE IF e.prompt.to_call < 0 THEN {"check", "bet", "allin"}
    ELSE {"fold", "call", "raise", "allin"}

legal_actions_now(e) ==
    IF ~e.hand_active \/ ~e.prompt.present THEN {}
    ELSE IF e.prompt.to_call <= 0 THEN {"check", "bet", "allin"}
    ELSE {"fold", "call", "raise", "allin"}

\* the text of the amount entry, one character per element
Digits == <<"0", "1", "2", "3", "4", "5", "6", "7", "8", "9">>
IsDigit(c) == \E d \in 1..10 : Digits[d] = c
DigitVal(c) == (CHOOSE d \in 1..10 : Digits[d] = c) - 1

RECURSIVE StripLeft(_)
StripLeft(s) == IF s # << >> /\ Head(s) = " " THEN StripLeft(Tail(s)) ELSE s

RECURSIVE StripRight(_)
StripRight(s) ==
    IF s # << >> /\ s[Len(s)] = " " THEN StripRight(SubSeq(s, 1, Len(s) - 1)) ELSE s

\* str.strip()
Strip(s) == StripRight(StripLeft(s))

RECURSIVE DecimalValue(_)
DecimalValue(s) ==
    IF s = << >> THEN 0
    ELSE 10 * DecimalValue(SubSeq(s, 1, Len(s) - 1)) + DigitVal(s[Len(s)])

\* int(raw): an optional sign, then one or more digits; anything else is a
\* ValueError (ok = FALSE)
PyInt(raw) ==
    LET s == Strip(raw)
        signed == s # << >> /\ Head(s) \in {"+", "-"}
        body == IF signed THEN Tail(s) ELSE s
        ok == body # << >> /\ \A i \in 1..Len(body) : IsDigit(body[i])
    IN [ok |-> ok,
        val |-> IF ~ok THEN 0
                ELSE IF signed /\ Head(s) = "-" THEN 0 - DecimalValue(body)
                ELSE DecimalValue(body)]

\* _parse_amount returning int(raw) as it is
parse_amount_keeps_negative(text) ==
    LET raw == Strip(text)
    IN IF raw = << >> THEN 0
       ELSE IF PyInt(raw).ok THEN PyInt(raw).val
       ELSE 0

parse_amount(text) ==
    LET raw == Strip(text)
    IN IF raw = << >> THEN 0
       ELSE IF PyInt(raw).ok THEN Max(0, PyInt(raw).val)
       ELSE 0

\* the default bet without the limit of the stack
default_bet_unclamped(prompt, bb) == Max(bb * 2, prompt.pot \div 2)

\* _act: amt = min(max(self.settings.bb * 2, pot // 2), you_stack)
default_bet(prompt, bb) ==
    Min(Max(bb * 2, prompt.pot \div 2), prompt.you_stack)

\* the default raise without the limit of the chips left
default_raise_unclamped(prompt) ==
    Max(prompt.min_raise_to, prompt.min_raise_to + prompt.pot \div 2)

\* _act: amt = min(max(min_raise_to, min_raise_to + pot // 2),
\*                 you_stack + prompt["you_bet_street"])
default_raise(prompt) ==
    Min(Max(prompt.min_raise_to, prompt.min_raise_to + prompt.pot \div 2),
        prompt.you_stack + prompt.you_bet_street)

\* the sizing applied to every bet or raise, whatever amount was entered
resolve_amount_ignores_entry(action, prompt, amt, bb) ==
    IF action \in {"bet", "raise"} /\ prompt.present
    THEN IF action = "bet" THEN default_bet(prompt, bb) ELSE default_raise(prompt)
    ELSE amt

\* _act, the default sizing of a bet or a raise given without an amount
resolve_amount(action, prompt, amt, bb) ==
    IF action \in {"bet", "raise"} /\ prompt.present /\ amt <= 0
    THEN IF action = "bet" THEN default_bet(prompt, bb) ELSE default_raise(prompt)
    ELSE amt

----------------------------------------------------------------------------
(* The preflop trainer: _trainer_advice *)

Ranks == <<"2", "3", "4", "5", "6", "7", "8", "9", "T", "J", "Q", "K", "A">>
RankSet == {Ranks[i] : i \in 1..Len(Ranks)}

\* RANK_VAL = {r: i for i, r in enumerate("23456789TJQKA", start=2)}
RANK_VAL == [r \in RankSet |-> (CHOOSE i \in 1..Len(Ranks) : Ranks[i] = r) + 1]

Positions == {"UTG", "HJ", "CO", "BTN", "SB"}
Levels == {"Beginner", "Intermediate", "Advanced"}

\* the level texts tried: the three of the level box, one in lower case,
\* an unknown one and the empty text
LevelTexts == Levels \cup {"advanced", "Expert", ""}

\* str.strip().title() on the level texts tried
StripTitle(text) == IF text = "advanced" THEN "Advanced" ELSE text

\* level = (level or "Beginner").strip().title(), Beginner if unknown
normal_level(level) ==
    LET t == StripTitle(IF level = "" THEN "Beginner" ELSE level)
    IN IF t \in Levels THEN t ELSE "Beginner"

\* the loosening table upside down
loosen_of_reversed(level) ==
    IF level = "Beginner" THEN 2 ELSE IF level = "Intermediate" THEN 1 ELSE 0

loosen_of(level) ==
    IF level = "Beginner" THEN 0 ELSE IF level = "Intermediate" THEN 1 ELSE 2

premiums == {<<"A", "A">>, <<"K", "K">>, <<"Q", "Q">>, <<"J", "J">>, <<"A", "K">>}
strong_broadways ==
    {<<"A", "Q">>, <<"A", "J">>, <<"K", "Q">>, <<"K", "J">>, <<"Q", "J">>}

connectors(loosen) ==
    {<<"9", "8">>, <<"T", "9">>, <<"J", "T">>, <<"Q", "J">>, <<"K", "Q">>, <<"8", "7">>}
        \cup (IF loosen >= 1 THEN {<<"7", "6">>, <<"9", "7">>, <<"T", "8">>} ELSE {})
        \cup (IF loosen >= 2 THEN {<<"6", "5">>, <<"8", "6">>, <<"J", "9">>} ELSE {})

\* the local names of _trainer_advice without "Normalize order"
Spot_as_dealt(r1, r2, suited, pos, level) ==
    [r1 |-> r1, r2 |-> r2, is_pair |-> r1 = r2, suited |-> suited,
     level |-> normal_level(level), loosen |-> loosen_of(normal_level(level)),
     tight |-> pos \in {"UTG"}, mid |-> pos \in {"HJ", "SB"},
     late |-> pos \in {"CO", "BTN"}, key |-> <<r1, r2>>]

\* the local names of _trainer_advice after "Normalize order"
Spot(r1, r2, suited, pos, level) ==
    LET hi == IF RANK_VAL[r2] > RANK_VAL[r1] THEN r2 ELSE r1
        lo == IF RANK_VAL[r2] > RANK_VAL[r1] THEN r1 ELSE r2
    IN [r1 |-> hi, r2 |-> lo, is_pair |-> hi = lo, suited |-> suited,
        level |-> normal_level(level), loosen |-> loosen_of(normal_level(level)),
        tight |-> pos \in {"UTG"}, mid |-> pos \in {"HJ", "SB"},
        late |-> pos \in {"CO", "BTN"}, key |-> <<hi, lo>>]

\* a verdict: the action and the explanation (by its opening words)
Verdict(action, why) == [action |-> action, why |-> why]

\* the branch "if is_pair" asking for the middle cut in late position too
pair_advice_cut_in_late(c) ==
    LET pair_raise_cut == <<"9", "8", "7">>[Min(c.loosen, 2) + 1]
        pair_mid_raise_cut == <<"6", "5", "4">>[Min(c.loosen, 2) + 1]
    IN IF RANK_VAL[c.r1] >= RANK_VAL[pair_raise_cut]
       THEN Verdict("Raise", "Big pairs and medium-high pairs")
       ELSE IF (c.late \/ c.mid) /\ RANK_VAL[c.r1] >= RANK_VAL[pair_mid_raise_cut]
       THEN Verdict("Raise", "Small pairs can be raised")
       ELSE Verdict("Fold", "From early position, tiny pairs")

\* the branch "if is_pair"
pair_advice(c) ==
    LET pair_raise_cut == <<"9", "8", "7">>[Min(c.loosen, 2) + 1]
        pair_mid_raise_cut == <<"6", "5", "4">>[Min(c.loosen, 2) + 1]
    IN IF RANK_VAL[c.r1] >= RANK_VAL[pair_raise_cut]
       THEN Verdict("Raise", "Big pairs and medium-high pairs")
       ELSE IF c.late \/ (c.mid /\ RANK_VAL[c.r1] >= RANK_VAL[pair_mid_raise_cut])
       THEN Verdict("Raise", "Small pairs can be raised")
       ELSE Verdict("Fold", "From early position, tiny pairs")

\* the condition of "Suited big cards"
suited_big(c) ==
    c.suited /\ (\/ c.key \in premiums
                 \/ c.key \in strong_broadways
                 \/ c.r1 \in {"A", "K", "Q"} /\ RANK_VAL[c.r2] >= RANK_VAL["T"])

\* "Offsuit big cards" taking the strong broadways as the suited branch does
offsuit_big_all_broadways(c) ==
    ~c.suited /\ (c.key \in premiums \/ c.key \in strong_broadways)

\* the condition of "Offsuit big cards"
offsuit_big(c) ==
    ~c.suited /\ (c.key \in premiums
                    \/ c.key \in {<<"A", "Q">>, <<"A", "K">>, <<"K", "Q">>})

\* "Suited connectors / one-gappers" calling everywhere but in late position
connector_advice_call_early(c) ==
    IF c.late THEN Verdict("Raise", "In late position, suited connectors")
    ELSE Verdict("Call", "From middle/out-of-position spots")

\* the branch "Suited connectors / one-gappers"
connector_advice(c) ==
    IF c.late THEN Verdict("Raise", "In late position, suited connectors")
    ELSE IF c.mid THEN Verdict("Call", "From middle/out-of-position spots")
    ELSE Verdict("Fold", "From early position, suited connectors")

\* "Axs suited" calling under the gun from Intermediate on
suited_ace_advice_call_sooner(c) ==
    IF c.late \/ c.mid THEN Verdict("Raise", "Suited A-x can make nut flushes")
    ELSE IF c.loosen >= 1 THEN Verdict("Call", "Advanced default")
    ELSE Verdict("Fold", "Suited A-x is tempting")

\* the branch "Axs suited"
suited_ace_advice(c) ==
    IF c.late \/ c.mid THEN Verdict("Raise", "Suited A-x can make nut flushes")
    ELSE IF c.loosen >= 2 THEN Verdict("Call", "Advanced default")
    ELSE Verdict("Fold", "Suited A-x is tempting")

\* "Otherwise" with the Beginner cut at every level
otherwise_advice_one_cut(c) ==
    IF c.late /\ c.suited /\ RANK_VAL[c.r1] >= RANK_VAL["T"]
    THEN Verdict("Raise", "Late position gives you fold equity")
    ELSE Verdict("Fold", "Default fundamentals (" \o c.level \o ")")

\* the end of _trainer_advice, "Otherwise"
otherwise_advice(c) ==
    LET late_suited_cut == <<"T", "9", "8">>[Min(c.loosen, 2) + 1]
    IN IF c.late /\ c.suited /\ RANK_VAL[c.r1] >= RANK_VAL[late_suited_cut]
       THEN Verdict("Raise", "Late position gives you fold equity")
       ELSE Verdict("Fold", "Default fundamentals (" \o c.level \o ")")

\* _trainer_advice with the suited connectors looked at before the big cards
trainer_advice_connectors_first(r1, r2, suited, pos, level) ==
    LET c == Spot(r1, r2, suited, pos, level)
    IN IF c.is_pair THEN pair_advice(c)
       ELSE IF c.suited /\ c.key \in connectors(c.loosen) THEN connector_advice(c)
       ELSE IF suited_big(c)
       THEN Verdict("Raise", "Suited high cards")
       ELSE IF offsuit_big(c)
       THEN Verdict("Raise", "Top broadways")
       ELSE IF c.suited /\ c.r1 = "A" /\ RANK_VAL[c.r2] >= RANK_VAL["5"]
       THEN suited_ace_advice(c)
       ELSE otherwise_advice(c)

trainer_advice(r1, r2, suited, pos, level) ==
    LET c == Spot(r1, r2, suited, pos, level)
    IN IF c.is_pair THEN pair_advice(c)
       ELSE IF suited_big(c)
       THEN Verdict("Raise", "Suited high cards")
       ELSE IF offsuit_big(c)
       THEN Verdict("Raise", "Top broadways")
       ELSE IF c.suited /\ c.key \in connectors(c.loosen) THEN connector_advice(c)
       ELSE IF c.suited /\ c.r1 = "A" /\ RANK_VAL[c.r2] >= RANK_VAL["5"]
       THEN suited_ace_advice(c)
       ELSE otherwise_advice(c)

----------------------------------------------------------------------------
(* The callbacks of PokerGUI, as functions of the world they run in and of *)
(* the outcomes of the engine calls they make                              *)

\* auto_advance without the "handle is None" test before scheduling
auto_advance_unguarded(w0) == On(w0, LAMBDA w :
    IF ~w.engine.hand_active /\ auto_advance_hand
    THEN LET id == FreshId(w.timers, w.id)
         IN [w EXCEPT !.timers = After(w.timers, DwellDelay, "auto_next_hand_if_idle", id),
                      !.id = id,
                      !.tr = Append(w.tr, Ev("after", "auto_next_hand_if_idle",
                                             DwellDelay, FALSE, FALSE))]
    ELSE IF w.id # None
         THEN [w EXCEPT !.timers = AfterCancel(w.timers, w.id),
                        !.id = None,
                        !.tr = Append(w.tr, Ev("after_cancel", "auto_next_hand_if_idle",
                                               0, FALSE, FALSE))]
         ELSE w)

\* auto_advance without the cancellation when a hand is active
auto_advance_no_cancel(w0) == On(w0, LAMBDA w :
    IF ~w.engine.hand_active /\ auto_advance_hand /\ w.id = None
    THEN LET id == FreshId(w.timers, w.id)
         IN [w EXCEPT !.timers = After(w.timers, DwellDelay, "auto_next_hand_if_idle", id),
                      !.id = id,
                      !.tr = Append(w.tr, Ev("after", "auto_next_hand_if_idle",
                                             DwellDelay, FALSE, FALSE))]
    ELSE w)

\* the auto-advance block cancelling the timer and keeping its handle
auto_advance_keeps_handle(w0) == On(w0, LAMBDA w :
    IF ~w.engine.hand_active /\ auto_advance_hand
    THEN IF w.id = None
         THEN LET id == FreshId(w.timers, w.id)
              IN [w EXCEPT !.timers = After(w.timers, DwellDelay, "auto_next_hand_if_idle", id),
                           !.id = id,
                           !.tr = Append(w.tr, Ev("after", "auto_next_hand_if_idle",
                                                  DwellDelay, FALSE, FALSE))]
         ELSE w
    ELSE IF w.id # None
         THEN [w EXCEPT !.timers = AfterCancel(w.timers, w.id),
                        !.tr = Append(w.tr, Ev("after_cancel", "auto_next_hand_if_idle",
                                               0, FALSE, FALSE))]
         ELSE w)

\* _refresh, the auto-advance block
auto_advance(w0) == On(w0, LAMBDA w :
    IF ~w.engine.hand_active /\ auto_advance_hand
    THEN IF w.id = None
         THEN LET id == FreshId(w.timers, w.id)
              IN [w EXCEPT !.timers = After(w.timers, DwellDelay, "auto_next_hand_if_idle", id),
                           !.id = id,
                           !.tr = Append(w.tr, Ev("after", "auto_next_hand_if_idle",
                                                  DwellDelay, FALSE, FALSE))]
         ELSE w
    ELSE IF w.id # None
         THEN [w EXCEPT !.timers = AfterCancel(w.timers, w.id),
                        !.id = None,
                        !.tr = Append(w.tr, Ev("after_cancel", "auto_next_hand_if_idle",
                                               0, FALSE, FALSE))]
         ELSE w)

\* _refresh, the "Odds" block: the text left in odds_var.  An exception of
\* estimate_win_prob is caught and leaves the text empty.
odds_txt(est) == IF est = "ok" THEN "Win odds" ELSE ""

\* the "Odds" block, what it adds to the trace
odds(w) ==
    IF w.est = "skipped" THEN w
    ELSE [w EXCEPT !.tr = Append(@, Ev("estimate_win_prob", w.est, 0, FALSE, FALSE))]

\* _refresh with the "Odds" block outside any try/except
refresh_estimate_uncaught(w0) == On(w0, LAMBDA w :
    IF w.exc THEN w
    ELSE IF w.est = "raises" THEN [odds(w) EXCEPT !.exc = TRUE]
    ELSE auto_advance([odds(w) EXCEPT !.buttons = ButtonStates(w.engine),
                                      !.tr = Append(@, Ev("refresh", odds_txt(w.est), 0,
                                                          w.engine.waiting_for_human,
                                                          w.engine.hand_active))]))

\* _refresh: reads the snapshot, shows the odds, sets the buttons, then the
\* auto-advance block
refresh(w0) == On(w0, LAMBDA w :
    IF w.exc THEN w
    ELSE auto_advance([odds(w) EXCEPT !.buttons = ButtonStates(w.engine),
                                      !.tr = Append(@, Ev("refresh", odds_txt(w.est), 0,
                                                          w.engine.waiting_for_human,
                                                          w.engine.hand_active))]))

StartEv(w) == Ev("start_new_hand", "", 0, AutoTimers(w.timers) # {}, w.engine.hand_active)
AdvanceEv == Ev("advance", "", 0, FALSE, FALSE)
\* raw = the text _parse_amount found in the amount entry
ApplyEv(action, amt, raw) ==
    [op |-> "apply_human_action", a |-> action, n |-> amt, pend |-> FALSE,
     act |-> FALSE, raw |-> raw]

\* _next_hand without the advance after start_new_hand
next_hand_no_advance(w0, e1, e2) == On(w0, LAMBDA w :
    Schedule(refresh(CallEngine(w, e1, StartEv(w))), StepDelay, "cpu_loop"))

\* _next_hand refreshing between start_new_hand and advance, not after
next_hand_refresh_between(w0, e1, e2) == On(w0, LAMBDA w :
    Schedule(CallEngine(refresh(CallEngine(w, e1, StartEv(w))), e2, AdvanceEv),
             StepDelay, "cpu_loop"))

\* _next_hand; e1 = the engine after start_new_hand, e2 = after advance
next_hand(w0, e1, e2) == On(w0, LAMBDA w :
    Schedule(refresh(CallEngine(CallEngine(w, e1, StartEv(w)), e2, AdvanceEv)),
             StepDelay, "cpu_loop"))

\* _cpu_loop that advances once and schedules no further step
cpu_loop_single_step(w0, e2) == On(w0, LAMBDA w :
    IF ~w.engine.hand_active \/ w.engine.waiting_for_human
    THEN refresh(w)
    ELSE refresh(CallEngine(w, e2, AdvanceEv)))

\* _cpu_loop that advances without looking at the engine first
cpu_loop_unconditional(w0, e2) == On(w0, LAMBDA w :
    Schedule(refresh(CallEngine(w, e2, AdvanceEv)), StepDelay, "cpu_loop"))

\* _cpu_loop that catches an exception of advance and carries on
cpu_loop_swallows_failure(w0, e2) == On(w0, LAMBDA w :
    IF ~w.engine.hand_active \/ w.engine.waiting_for_human
    THEN refresh(w)
    ELSE Schedule(refresh([CallEngine(w, e2, AdvanceEv) EXCEPT !.exc = FALSE]),
                  StepDelay, "cpu_loop"))

\* _cpu_loop; e2 = the engine after advance (when it is called)
cpu_loop(w0, e2) == On(w0, LAMBDA w :
    IF ~w.engine.hand_active \/ w.engine.waiting_for_human
    THEN refresh(w)
    ELSE Schedule(refresh(CallEngine(w, e2, AdvanceEv)), StepDelay, "cpu_loop"))

\* _act, the amount handed to the engine
act_amount(e, action, text, bb) ==
    resolve_amount(action, e.prompt, parse_amount(text), bb)

\* _act handing the parsed amount to the engine without the default sizing
act_no_default(w0, action, text, bb, e1, e2) == On(w0, LAMBDA w :
    Schedule(refresh(CallEngine(CallEngine(w, e1, ApplyEv(action, parse_amount(text), text)),
                                e2, AdvanceEv)),
             StepDelay, "cpu_loop"))

\* _act; e1 = the engine after apply_human_action, e2 = after advance
act(w0, action, text, bb, e1, e2) == On(w0, LAMBDA w :
    LET amt == act_amount(w.engine, action, text, bb)
    IN Schedule(refresh(CallEngine(CallEngine(w, e1, ApplyEv(action, amt, text)),
                                   e2, AdvanceEv)),
                StepDelay, "cpu_loop"))

\* _auto_next_hand_if_idle without clearing the handle first
auto_next_hand_stale_handle(w0, e1, e2) == On(w0, LAMBDA w :
    IF ~w.engine.hand_active THEN next_hand(w, e1, e2) ELSE w)

\* _auto_next_hand_if_idle
auto_next_hand_if_idle(w0, e1, e2) == On([w0 EXCEPT !.id = None], LAMBDA w :
    IF ~w.engine.hand_active THEN next_hand(w, e1, e2) ELSE w)

\* name = self.cpu_preset_var.get()
PresetEv(name) == Ev("cpu_preset_var.get", name, 0, FALSE, FALSE)

\* the nine entries of the settings dialog are read
EntriesEv(inp) ==
    [op |-> "entries.get", a |-> "", n |-> 0, pend |-> FALSE, act |-> FALSE, inp |-> inp]

\* _apply_cpu_preset building GameSettings from the preset alone
preset_settings_from_defaults(s, name) ==
    LET p == IF name \in DOMAIN CPU_PRESETS THEN CPU_PRESETS[name] ELSE CPU_PRESETS["Normal"]
    IN [players |-> GameSettings.players, start_stack |-> GameSettings.start_stack,
        sb |-> GameSettings.sb, bb |-> GameSettings.bb, seed |-> GameSettings.seed,
        cpu_aggression |-> p.cpu_aggression, cpu_randomness |-> p.cpu_randomness,
        mc_iters_preflop |-> p.mc_pre, mc_iters_postflop |-> p.mc_post]

\* _apply_cpu_preset: new settings, a new engine, refresh, deferred _next_hand
preset_settings(s, name) ==
    LET p == IF name \in DOMAIN CPU_PRESETS THEN CPU_PRESETS[name] ELSE CPU_PRESETS["Normal"]
    IN [players |-> s.players, start_stack |-> s.start_stack, sb |-> s.sb, bb |-> s.bb,
        seed |-> s.seed,
        cpu_aggression |-> p.cpu_aggression, cpu_randomness |-> p.cpu_randomness,
        mc_iters_preflop |-> p.mc_pre, mc_iters_postflop |-> p.mc_post]

apply_cpu_preset(w) ==
    Schedule(refresh([w EXCEPT !.engine = PokerEngine, !.est = "skipped"]),
             StepDelay, "next_hand")

\* the settings dialog's apply, on valid values: a new engine, refresh
apply_settings(w) == refresh([w EXCEPT !.engine = PokerEngine, !.est = "skipped"])

\* PokerGUI.__init__: no handle, a new engine, refresh, deferred _next_hand
Launch ==
    Schedule(refresh([engine |-> PokerEngine, timers |-> << >>, id |-> None,
                      buttons |-> {}, tr |-> << >>, est |-> "skipped",
                      exc |-> FALSE]),
             StepDelay, "next_hand")

\* the settings dialog's apply without the test of the blinds
validate_no_blinds(inp) ==
    IF ~inp.parses THEN "Invalid values."
    ELSE IF ~(2 <= inp.players /\ inp.players <= 9) THEN "Players must be 2-9."
    ELSE IF ~(20 <= inp.start_stack /\ inp.start_stack <= 10000)
         THEN "Starting stack must be 20-10000."
    ELSE ""

\* the settings dialog's apply: the values typed, as parsed (parses = FALSE
\* when int() or float() raises on one of them)
validate(inp) ==
    IF ~inp.parses THEN "Invalid values."
    ELSE IF ~(2 <= inp.players /\ inp.players <= 9) THEN "Players must be 2-9."
    ELSE IF ~(20 <= inp.start_stack /\ inp.start_stack <= 10000)
         THEN "Starting stack must be 20-10000."
    ELSE IF ~(0 < inp.sb /\ inp.sb < inp.bb) THEN "Require 0 < SB < BB."
    ELSE ""

new_settings(inp) ==
    [players |-> inp.players, start_stack |-> inp.start_stack, sb |-> inp.sb,
     bb |-> inp.bb, seed |-> inp.seed,
     cpu_aggression |-> inp.cpu_aggression, cpu_randomness |-> inp.cpu_randomness,
     mc_iters_preflop |-> Max(60, inp.mc_pre),
     mc_iters_postflop |-> Max(60, inp.mc_post)]

----------------------------------------------------------------------------
(* Inputs *)

\* texts of the amount entry: "", "x", " 12"
AmountTexts == {<< >>, <<"x">>, <<" ", "1", "2">>}

PresetChoices == {"Pro"}

\* the names cpu_preset_var may hold: the four of the CPU menu, and one that
\* is no key of CPU_PRESETS
PresetNames == DOMAIN CPU_PRESETS \cup {"Custom"}

SettingsInput(parses, players, start_stack, sb, bb) ==
    [parses |-> parses, players |-> players, start_stack |-> start_stack,
     sb |-> sb, bb |-> bb, seed |-> None, cpu_aggression |-> 125,
     cpu_randomness |-> 12, mc_pre |-> 800, mc_post |-> 1100]

\* one valid set of values, one with SB = BB
SettingsInputs ==
    {SettingsInput(TRUE, 6, 1000, 1, 2),
     SettingsInput(TRUE, 6, 1000, 2, 2)}

\* values for the nine entries: a seed, and iteration counts below 60
TypedSettings(parses, players, start_stack, sb, bb) ==
    [parses |-> parses, players |-> players, start_stack |-> start_stack,
     sb |-> sb, bb |-> bb, seed |-> 7, cpu_aggression |-> 80,
     cpu_randomness |-> 50, mc_pre |-> 10, mc_post |-> 59]

\* valid values (3 players, stack 500, blinds 1/2), then one entry at a time
\* at and beyond the ends of its range, and an entry that does not parse
TypedSettingsInputs ==
    {TypedSettings(TRUE, 3, 500, 1, 2), TypedSettings(FALSE, 3, 500, 1, 2)}
        \cup {TypedSettings(TRUE, players, 500, 1, 2) : players \in {1, 2, 9, 10}}
        \cup {TypedSettings(TRUE, 3, start_stack, 1, 2) :
                  start_stack \in {19, 20, 10000, 10001}}
        \cup {TypedSettings(TRUE, 3, 500, sb, 2) : sb \in {0, 2, 3}}

----------------------------------------------------------------------------
(* The state machine *)

HasStart(t) == \E i \in 1..Len(t) : t[i].op = "start_new_hand"

\* a callback has run to its end in world w
Commit(name, w0) == \E w \in {w0} :
    /\ engine' = w.engine
    /\ timers' = w.timers
    /\ auto_next_after_id' = w.id
    /\ buttons' = w.buttons
    /\ cb' = name
    /\ obs' = engine
    /\ tr' = w.tr
    /\ started' = IF HasStart(w.tr) THEN ~started ELSE started
    /\ UNCHANGED <<fn, ret>>

Init ==
    /\ engine = Launch.engine
    /\ settings = GameSettings
    /\ timers = Launch.timers
    /\ auto_next_after_id = Launch.id
    /\ buttons = Launch.buttons
    /\ cb = "init"
    /\ obs = PokerEngine
    /\ tr = Launch.tr
    /\ started = FALSE
    /\ fn = [name |-> "none"]
    /\ ret = 0

Room == Cardinality(ShortTimers(timers)) < MaxPending
Due(c) == timers # << >> /\ Head(timers).due = 0 /\ Head(timers).cb = c

\* Time passes.  Only the order in which the callbacks come due matters, so
\* a callback within StepDelay of its time comes due, and one further away
\* either stays further away than StepDelay or (near) comes within StepDelay.
\* Due callbacks may be called late: time passes whether or not they were.
Elapse(near) ==
    /\ \E i \in 1..Len(timers) :
          /\ timers[i].due > 0
          /\ near \/ timers[i].due <= StepDelay
    /\ timers' = [i \in 1..Len(timers) |->
                    [timers[i] EXCEPT !.due = IF @ > StepDelay
                                               THEN (IF near THEN StepDelay ELSE @)
                                               ELSE 0]]
    /\ UNCHANGED <<engine, settings, auto_next_after_id, buttons, cb, obs, tr, started,
                   fn, ret>>

Tick == \E near \in BOOLEAN : Elapse(near)

\* what a call of advance / apply_human_action may do: its outcomes, and
\* (fail) raising with the engine left in any of them
AdvanceOutcomes(e, fail) ==
    advance(e) \cup (IF fail THEN {Raise(x) : x \in advance(e)} ELSE {})

ApplyOutcomes(e, action, amt, fail) ==
    apply_human_action(e, action, amt)
        \cup (IF fail THEN {Raise(x) : x \in apply_human_action(e, action, amt)} ELSE {})

\* the advance that follows a call which left e1 (none follows one that raised)
ThenAdvance(e1, fail) == IF Failed(e1) THEN {e1} ELSE AdvanceOutcomes(e1, fail)

\* "New hand": menu entry, Ctrl+N, button
UserNextHandWith(fail, ests) ==
    /\ Room
    /\ \E est \in ests : \E e1 \in start_new_hand(engine) :
       \E e2 \in AdvanceOutcomes(e1, fail) :
          Commit("user:next_hand", next_hand(WorldWith(timers, est), e1, e2))
    /\ UNCHANGED settings

UserNextHand == UserNextHandWith(FALSE, {"ok"})

\* an enabled action button is clicked, the amount entry holding one of texts
UserActWith(texts, fail, ests) ==
    /\ Room
    /\ \E action \in buttons : \E text \in texts : \E est \in ests :
       \E e1 \in ApplyOutcomes(engine, action,
                                act_amount(engine, action, text, settings.bb), fail) :
       \E e2 \in ThenAdvance(e1, fail) :
          Commit("user:act",
                 act(WorldWith(timers, est), action, text, settings.bb, e1, e2))
    /\ UNCHANGED settings

UserAct == UserActWith(AmountTexts, FALSE, {"ok"})

\* a CPU preset is chosen
UserApplyCpuPresetWith(names) ==
    /\ Room
    /\ \E name \in names :
          /\ settings' = preset_settings(settings, name)
          /\ Commit("user:apply_cpu_preset",
                    apply_cpu_preset([World(timers) EXCEPT !.tr = <<PresetEv(name)>>]))

UserApplyCpuPreset == UserApplyCpuPresetWith(PresetChoices)

\* the settings dialog's "Apply (resets game)"
UserApplySettingsWith(inputs) ==
    \E inp \in inputs :
        IF validate(inp) = ""
        THEN /\ settings' = new_settings(inp)
             /\ Commit("user:apply_settings",
                       apply_settings([World(timers) EXCEPT !.tr = <<EntriesEv(inp)>>]))
        ELSE /\ cb' = "user:apply_settings"
             /\ obs' = engine
             /\ tr' = <<EntriesEv(inp), Ev("err.set", validate(inp), 0, FALSE, FALSE)>>
             /\ UNCHANGED <<engine, settings, timers, auto_next_after_id, buttons, started,
                            fn, ret>>

UserApplySettings == UserApplySettingsWith(SettingsInputs)

\* the deferred _next_hand comes due
FireNextHandWith(fail, ests) ==
    /\ Due("next_hand")
    /\ \E est \in ests : \E e1 \in start_new_hand(engine) :
       \E e2 \in AdvanceOutcomes(e1, fail) :
          Commit("after:next_hand", next_hand(WorldWith(Tail(timers), est), e1, e2))
    /\ UNCHANGED settings

FireNextHand == FireNextHandWith(FALSE, {"ok"})

\* a per-step continuation comes due
FireCpuLoopWith(fail, ests) ==
    /\ Due("cpu_loop")
    /\ \E est \in ests : \E e2 \in AdvanceOutcomes(engine, fail) :
          Commit("after:cpu_loop", cpu_loop(WorldWith(Tail(timers), est), e2))
    /\ UNCHANGED settings

FireCpuLoop == FireCpuLoopWith(FALSE, {"ok"})

\* the auto-next-hand timer comes due
FireAutoNextWith(fail, ests) ==
    /\ Due("auto_next_hand_if_idle")
    /\ \E est \in ests : \E e1 \in start_new_hand(engine) :
       \E e2 \in AdvanceOutcomes(e1, fail) :
          Commit("after:auto_next_hand_if_idle",
                 auto_next_hand_if_idle(WorldWith(Tail(timers), est), e1, e2))
    /\ UNCHANGED settings

FireAutoNext == FireAutoNextWith(FALSE, {"ok"})

Fire == FireNextHand \/ FireCpuLoop \/ FireAutoNext

Next ==
    \/ Tick
    \/ UserNextHand
    \/ UserAct
    \/ UserApplyCpuPreset
    \/ UserApplySettings
    \/ FireNextHand
    \/ FireCpuLoop
    \/ FireAutoNext

Spec == Init /\ [][Next]_vars

\* The Tk main loop keeps running: time passes and due callbacks are called.
\* The user may still start hands, choose the preset and act (with the amount
\* entry left empty), at any time or never.
LiveNext ==
    \/ Tick
    \/ UserNextHand
    \/ UserActWith({<< >>}, FALSE, {"ok"})
    \/ UserApplyCpuPreset
    \/ FireNextHand
    \/ FireCpuLoop
    \/ FireAutoNext

FairSpec == Init /\ [][LiveNext]_vars /\ WF_vars(Elapse(TRUE)) /\ WF_vars(Fire)

\* The same program with an engine whose advance / apply_human_action may
\* raise and an estimate_win_prob that may raise.  Tk reports an exception
\* that leaves a callback and carries on with the main loop.
FailNext ==
    \/ Tick
    \/ UserNextHandWith(TRUE, EstimateOutcomes)
    \/ UserActWith({<< >>}, TRUE, EstimateOutcomes)
    \/ FireNextHandWith(TRUE, EstimateOutcomes)
    \/ FireCpuLoopWith(TRUE, EstimateOutcomes)
    \/ FireAutoNextWith(TRUE, EstimateOutcomes)

FailSpec == Init /\ [][FailNext]_vars

\* The program driven from the settings dialog only, with the values of
\* TypedSettingsInputs; hands start and run by the deferred callbacks.
SettingsNext ==
    \/ Tick
    \/ UserApplySettingsWith(TypedSettingsInputs)
    \/ FireNextHand
    \/ FireCpuLoop
    \/ FireAutoNext

SettingsSpec == Init /\ [][SettingsNext]_vars

\* The program driven from the CPU menu, with every preset name, after the
\* settings dialog has or has not replaced the default settings.
PresetNext ==
    \/ Tick
    \/ UserApplyCpuPresetWith(PresetNames)
    \/ UserApplySettingsWith({TypedSettings(TRUE, 3, 500, 1, 2)})
    \/ FireNextHand
    \/ FireCpuLoop
    \/ FireAutoNext

PresetSpec == Init /\ [][PresetNext]_vars

----------------------------------------------------------------------------
(* The helper functions on their own: one of them is applied to         *)
(* arguments drawn from its domain                                       *)

\* chip amounts of the prompts and blinds tried
MaxChips == 4
MaxBlind == 2

Chips == 0..MaxChips

\* texts of the amount entry: up to MaxLen characters of AmountChars
MaxLen == 3
AmountChars == {"0", "1", "2", "-", "+", " ", "x"}
Texts == UNION {[1..n -> AmountChars] : n \in 0..MaxLen}

\* the snapshots the engine can show: no hand, an automated turn, or the
\* human's turn with a prompt (a prompt is present exactly on the human's turn)
Snapshots ==
    {Idle, Running}
        \cup {Waiting(Prompt(to_call, 0, 0, 0, 0)) : to_call \in (0 - 1)..MaxChips}

Applied(name, args, result) ==
    /\ fn' = [name |-> name, args |-> args]
    /\ ret' = result
    /\ UNCHANGED <<engine, settings, timers, auto_next_after_id, buttons, cb, obs, tr,
                   started>>

CallLegalActions == \E e \in Snapshots : Applied("legal_actions_now", e, legal_actions_now(e))

\* pots up to three times the largest stack, so that half the pot can
\* exceed twice the big blind
CallDefaultBet ==
    \E pot \in 0..(3 * MaxChips) : \E you_stack \in Chips : \E bb \in 1..MaxBlind :
        LET prompt == Prompt(0, 0, you_stack, 0, pot)
        IN Applied("default_bet", [prompt |-> prompt, bb |-> bb], default_bet(prompt, bb))

CallDefaultRaise ==
    \E min_raise_to \in Chips : \E pot \in Chips : \E you_stack \in Chips :
    \E you_bet_street \in Chips :
        LET prompt == Prompt(1, min_raise_to, you_stack, you_bet_street, pot)
        IN Applied("default_raise", [prompt |-> prompt], default_raise(prompt))

CallParseAmount == \E text \in Texts : Applied("parse_amount", text, parse_amount(text))

\* deal_new: correct_action, expl = _trainer_advice(r1, r2, suited, pos, level)
CallTrainerAdvice ==
    \E r1 \in RankSet : \E r2 \in RankSet : \E suited \in BOOLEAN :
    \E pos \in Positions : \E level \in LevelTexts :
        Applied("trainer_advice",
                [r1 |-> r1, r2 |-> r2, suited |-> suited, pos |-> pos, level |-> level],
                trainer_advice(r1, r2, suited, pos, level))

\* one function is applied, once, to one choice of arguments
PureNext ==
    /\ fn.name = "none"
    /\ \/ CallLegalActions
       \/ CallDefaultBet
       \/ CallDefaultRaise
       \/ CallParseAmount
       \/ CallTrainerAdvice

PureSpec == Init /\ [][PureNext]_vars

----------------------------------------------------------------------------
(* Reading the observations *)

StartCallbacks == {"user:next_hand", "after:next_hand"}

\* the last callback ran _next_hand
RanNextHand ==
    \/ cb \in StartCallbacks
    \/ cb = "after:auto_next_hand_if_idle" /\ ~obs.hand_active

IsStep(ev) ==
    \/ ev.op \in {"start_new_hand", "advance", "apply_human_action"}
    \/ ev.op = "after" /\ ev.a \in {"cpu_loop", "next_hand"}

\* the engine calls and the deferred hand starts / drive steps of a trace,
\* in order, by name
Steps(t) ==
    LET u == SelectSeq(t, IsStep)
    IN [i \in 1..Len(u) |-> IF u[i].op = "after" THEN "after:" \o u[i].a ELSE u[i].op]

Count(t, op) == Cardinality({i \in 1..Len(t) : t[i].op = op})

Scheduled(t, c) == \E i \in 1..Len(t) : t[i].op = "after" /\ t[i].a = c

----------------------------------------------------------------------------
(* Claims *)

\* C1: in every reachable state at most one auto-next-hand timer is
\* pending in the scheduler.
C1_AtMostOneAutoTimer == Cardinality(AutoTimers(timers)) <= 1

\* C1 witness: a refresh found the hand over with the timer already pending
\* and scheduled no second one.
C1_Witness ==
    /\ cb = "after:cpu_loop"
    /\ ~engine.hand_active
    /\ ~Scheduled(tr, "auto_next_hand_if_idle")
    /\ Cardinality(AutoTimers(timers)) = 1

\* C2 (as claimed): whenever start_new_hand is invoked on the engine, no
\* auto-next-hand timer is pending at that moment.
C2_StartAfterCancel ==
    \A i \in 1..Len(tr) : tr[i].op = "start_new_hand" => ~tr[i].pend

\* C3 (as claimed): start_new_hand is never invoked while a hand is active,
\* except by the user's New Hand command.
C3_NoDoubleStart ==
    \A i \in 1..Len(tr) :
        tr[i].op = "start_new_hand" /\ tr[i].act => cb = "user:next_hand"

\* C4 (as claimed): in every reachable state at most one per-step drive
\* continuation is pending in the scheduler.
C4_AtMostOneContinuation == Cardinality(StepTimers(timers)) <= 1

\* C5: whenever the hand is active and it is not the human's turn, a
\* per-step drive continuation is pending; and a drive step that schedules
\* no further step found the hand over or the human to act.
C5_DriveNeverHalts ==
    /\ engine.hand_active /\ ~engine.waiting_for_human => StepTimers(timers) # {}
    /\ cb = "after:cpu_loop" /\ ~Scheduled(tr, "cpu_loop")
          => ~obs.hand_active \/ obs.waiting_for_human

\* C5 witness: a drive step ran in an automated turn and left the hand in
\* an automated turn.
C5_Witness ==
    /\ cb = "after:cpu_loop"
    /\ obs.hand_active /\ ~obs.waiting_for_human
    /\ engine.hand_active /\ ~engine.waiting_for_human

\* C6: a drive step that finds the hand active and the human not to act
\* calls advance exactly once and then schedules the next step; any other
\* drive step calls nothing and schedules no step; no callback calls advance
\* more than once.
C6_OneAdvancePerStep ==
    /\ cb = "after:cpu_loop" =>
          IF obs.hand_active /\ ~obs.waiting_for_human
          THEN Steps(tr) = <<"advance", "after:cpu_loop">>
          ELSE Steps(tr) = << >>
    /\ Count(tr, "advance") <= 1

\* C6 witness: a drive step that advanced the engine into the human's turn.
C6_Witness ==
    /\ cb = "after:cpu_loop"
    /\ obs.hand_active /\ ~obs.waiting_for_human
    /\ engine.waiting_for_human

\* C7: under a fair scheduler, every state in which no hand is active is
\* eventually followed by a start_new_hand call.
C7_AutoNextLive ==
    \A b \in BOOLEAN : (~engine.hand_active /\ started = b) ~> (started # b)

\* C7 witness: the auto-next-hand timer fired with no hand active and started one.
C7_Witness ==
    /\ cb = "after:auto_next_hand_if_idle"
    /\ ~obs.hand_active
    /\ HasStart(tr)

C9_StartHandOrder ==
    RanNextHand => Steps(tr) = <<"start_new_hand", "advance", "after:cpu_loop">>

\* C9 witness: the deferred hand start ran.
C9_Witness == cb = "after:next_hand" /\ Len(tr) >= 3

\* C10: _act calls apply_human_action once, with the clicked action and the
\* resolved amount, then advance once, then schedules a drive step.
C10_ActOrder ==
    cb = "user:act" =>
        /\ Steps(tr) = <<"apply_human_action", "advance", "after:cpu_loop">>
        /\ tr[1].op = "apply_human_action"
        /\ tr[1].a \in ButtonStates(obs)
        /\ \E text \in AmountTexts :
              tr[1].n = resolve_amount(tr[1].a, obs.prompt, parse_amount(text), settings.bb)

\* C10 witness: a bet was submitted without an amount and got the default size.
C10_Witness ==
    /\ cb = "user:act"
    /\ tr[1].a = "bet"
    /\ tr[1].n = Min(Max(settings.bb * 2, obs.prompt.pot \div 2), obs.prompt.you_stack)
    /\ tr[1].n > 0

----------------------------------------------------------------------------
(* The sizing rules as the specification states them *)

\* clamp(x, lo, hi): x brought into lo..hi; the upper limit wins when hi < lo
Clamp(x, lo, hi) == Min(hi, Max(lo, x))

DefaultBetSize(prompt, bigBlind) ==
    Clamp(Max(2 * bigBlind, prompt.pot \div 2), 1, prompt.you_stack)

DefaultRaiseSize(prompt) ==
    Clamp(Max(prompt.min_raise_to, prompt.min_raise_to + prompt.pot \div 2), 1,
          prompt.you_stack + prompt.you_bet_street)

\* C11: _act hands the engine the default bet size for a bet, and the
\* default raise size for a raise, whenever the amount entry is blank,
\* malformed or not positive and a prompt is present; an entry that is a
\* positive integer is handed over unchanged, whatever the action.
C11_AmountResolution ==
    cb = "user:act" =>
        LET ev == tr[1]
            unset == Strip(ev.raw) = << >> \/ ~PyInt(ev.raw).ok \/ PyInt(ev.raw).val <= 0
        IN /\ unset /\ obs.prompt.present /\ ev.a = "bet"
                => ev.n = DefaultBetSize(obs.prompt, settings.bb)
           /\ unset /\ obs.prompt.present /\ ev.a = "raise"
                => ev.n = DefaultRaiseSize(obs.prompt)
           /\ ~unset => ev.n = PyInt(ev.raw).val

\* C11 witness: a raise was submitted with a malformed amount and was
\* handed to the engine with the default raise size.
C11_Witness ==
    /\ cb = "user:act"
    /\ tr[1].a = "raise"
    /\ tr[1].raw = <<"x">>
    /\ tr[1].n = DefaultRaiseSize(obs.prompt)
    /\ tr[1].n > 0

\* C11 witness of the other half: a bet was submitted with the amount 12.
C11_WitnessEntered ==
    /\ cb = "user:act"
    /\ tr[1].a = "bet"
    /\ tr[1].raw = <<" ", "1", "2">>
    /\ tr[1].n = 12

Raised(t) == \E i \in 1..Len(t) : t[i].op = "raise"

\* C12: a callback in which advance or apply_human_action raises does
\* nothing after the failing call: no retry, no other engine call, no
\* refresh, and it schedules nothing, so no per-step continuation is added
\* to the ones pending.
C12_FailureHalts ==
    /\ [](\A i \in 1..Len(tr) : tr[i].op = "raise" => i = Len(tr))
    /\ [][Raised(tr') =>
            Cardinality(StepTimers(timers')) <= Cardinality(StepTimers(timers))]_vars

\* C12 witness: advance raised in a drive step during an automated turn;
\* the hand is left in the automated turn with no continuation pending.
C12_Witness ==
    /\ cb = "after:cpu_loop"
    /\ Len(tr) = 2 /\ tr[1].op = "advance" /\ tr[2].op = "raise"
    /\ engine.hand_active /\ ~engine.waiting_for_human
    /\ StepTimers(timers) = {}

EstimateRaised(t) ==
    \E i \in 1..Len(t) : t[i].op = "estimate_win_prob" /\ t[i].a = "raises"

\* what a callback that ran to its end calls on the engine and schedules
\* (C6, C9, C10)
ExpectedSteps ==
    IF cb = "user:act"
    THEN <<"apply_human_action", "advance", "after:cpu_loop">>
    ELSE IF RanNextHand
    THEN <<"start_new_hand", "advance", "after:cpu_loop">>
    ELSE IF cb = "after:cpu_loop" /\ obs.hand_active /\ ~obs.waiting_for_human
    THEN <<"advance", "after:cpu_loop">>
    ELSE << >>

\* C13: a callback in whose _refresh estimate_win_prob raises shows no
\* estimate and goes on as one in which it returned: the refresh is
\* completed, the callback makes the engine calls and schedules the drive
\* step it makes otherwise, and the auto-next-hand timer is pending exactly
\* when the hand is over.
C13_EstimateFailureCaught ==
    EstimateRaised(tr) =>
        /\ \E i \in 1..(Len(tr) - 1) :
              /\ tr[i].op = "estimate_win_prob"
              /\ tr[i + 1].op = "refresh" /\ tr[i + 1].a = ""
        /\ Steps(tr) = ExpectedSteps
        /\ IF engine.hand_active
           THEN AutoTimers(timers) = {} /\ auto_next_after_id = None
           ELSE /\ Cardinality(AutoTimers(timers)) = 1
                /\ \A i \in AutoTimers(timers) : timers[i].id = auto_next_after_id

\* C13 witness: estimate_win_prob raised in the drive step that ended the
\* hand; the step scheduled the auto-next-hand timer and the next step.
C13_Witness ==
    /\ cb = "after:cpu_loop"
    /\ EstimateRaised(tr)
    /\ obs.hand_active /\ ~engine.hand_active
    /\ Scheduled(tr, "auto_next_hand_if_idle")
    /\ Scheduled(tr, "cpu_loop")

IsEngineCall(ev) == ev.op \in {"start_new_hand", "advance", "apply_human_action"}

C15_LegalActions ==
    fn.name = "legal_actions_now" =>
        LET prompt == fn.args.prompt
        IN IF ~prompt.present THEN ret = {}
           ELSE IF prompt.to_call <= 0 THEN ret = {"check", "bet", "allin"}
           ELSE ret = {"fold", "call", "raise", "allin"}

\* C15 witness: the legal actions of a prompt with nothing to call.
C15_Witness ==
    /\ fn.name = "legal_actions_now"
    /\ fn.args.prompt.present /\ fn.args.prompt.to_call = 0
    /\ ret = {"check", "bet", "allin"}

\* C16: for every pot >= 0, stack >= 0 and big blind, the default bet is
\* clamp(max(2 * big blind, pot div 2), 1, stack), and never more than the stack.
C16_DefaultBet ==
    fn.name = "default_bet" =>
        /\ ret = DefaultBetSize(fn.args.prompt, fn.args.bb)
        /\ ret <= fn.args.prompt.you_stack

\* C16 witness: half the pot exceeds twice the big blind and the stack
\* covers it.
C16_Witness ==
    /\ fn.name = "default_bet"
    /\ fn.args.prompt.pot \div 2 > 2 * fn.args.bb
    /\ ret = fn.args.prompt.pot \div 2
    /\ ret < fn.args.prompt.you_stack

\* C17 (as claimed): the default raise is at least min_raise_to and at most
\* you_stack + you_bet_street, on every prompt.
C17_RaiseBounds ==
    fn.name = "default_raise" =>
        /\ ret >= fn.args.prompt.min_raise_to
        /\ ret <= fn.args.prompt.you_stack + fn.args.prompt.you_bet_street

\* C17 (amended): the default raise is at most you_stack + you_bet_street;
\* it is at least min_raise_to when the human's chips reach min_raise_to,
\* and it is all of you_stack + you_bet_street when they do not.
C17_DefaultRaise ==
    fn.name = "default_raise" =>
        LET prompt == fn.args.prompt
            chips == prompt.you_stack + prompt.you_bet_street
        IN /\ ret <= chips
           /\ chips >= prompt.min_raise_to => ret >= prompt.min_raise_to
           /\ chips < prompt.min_raise_to => ret = chips

\* C17 witness: the human's chips are fewer than the minimum raise.
C17_Witness ==
    /\ fn.name = "default_raise"
    /\ fn.args.prompt.you_stack + fn.args.prompt.you_bet_street
          < fn.args.prompt.min_raise_to
    /\ fn.args.prompt.you_stack > 0
    /\ ret = fn.args.prompt.you_stack + fn.args.prompt.you_bet_street

\* a text made of decimal digits only
IsNumber(s) == s # << >> /\ \A i \in 1..Len(s) : IsDigit(s[i])

\* C18: _parse_amount always returns a number, never below 0: 0 for a
\* blank text, for a negative number and for a text that is no integer, and
\* n for a text that is the non-negative integer n (spaces around it and a
\* leading "+" allowed).
C18_ParseAmount ==
    fn.name = "parse_amount" =>
        LET s == Strip(fn.args)
            signed == Len(s) > 1 /\ Head(s) \in {"+", "-"} /\ IsNumber(Tail(s))
        IN /\ ret \in Nat
           /\ s = << >> => ret = 0
           /\ IsNumber(s) => ret = DecimalValue(s)
           /\ signed /\ Head(s) = "+" => ret = DecimalValue(Tail(s))
           /\ signed /\ Head(s) = "-" => ret = 0
           /\ s # << >> /\ ~IsNumber(s) /\ ~signed => ret = 0

\* C18 witness: "-2" is parsed to 0.
C18_Witness ==
    /\ fn.name = "parse_amount"
    /\ fn.args = <<"-", "2">>
    /\ ret = 0

\* C18 witness: " 12" is parsed to 12.
C18_WitnessNumber ==
    /\ fn.name = "parse_amount"
    /\ fn.args = <<" ", "1", "2">>
    /\ ret = 12

----------------------------------------------------------------------------
(* The classifier's rules as the specification lists them, in its order *)

High(a) == IF RANK_VAL[a.r2] > RANK_VAL[a.r1] THEN a.r2 ELSE a.r1
Low(a) == IF RANK_VAL[a.r2] > RANK_VAL[a.r1] THEN a.r1 ELSE a.r2
Hand(a) == <<High(a), Low(a)>>
Loosen(a) == loosen_of(normal_level(a.level))

\* the guard of rule i on the spot a
RuleGuard(i, a) ==
    IF i = 1 THEN High(a) = Low(a)
    ELSE IF i = 2
    THEN a.suited /\ (\/ Hand(a) \in {<<"A", "A">>, <<"K", "K">>, <<"Q", "Q">>,
                                      <<"J", "J">>, <<"A", "K">>}
                      \/ Hand(a) \in {<<"A", "Q">>, <<"A", "J">>, <<"K", "Q">>,
                                      <<"K", "J">>, <<"Q", "J">>}
                      \/ High(a) \in {"A", "K", "Q"} /\ RANK_VAL[Low(a)] >= 10)
    ELSE IF i = 3
    THEN ~a.suited /\ Hand(a) \in {<<"A", "A">>, <<"K", "K">>, <<"Q", "Q">>, <<"J", "J">>,
                                   <<"A", "K">>, <<"A", "Q">>, <<"K", "Q">>}
    ELSE IF i = 4
    THEN a.suited
         /\ \/ Hand(a) \in {<<"9", "8">>, <<"T", "9">>, <<"J", "T">>, <<"Q", "J">>,
                            <<"K", "Q">>, <<"8", "7">>}
            \/ Loosen(a) >= 1 /\ Hand(a) \in {<<"7", "6">>, <<"9", "7">>, <<"T", "8">>}
            \/ Loosen(a) >= 2 /\ Hand(a) \in {<<"6", "5">>, <<"8", "6">>, <<"J", "9">>}
    ELSE IF i = 5
    THEN a.suited /\ High(a) = "A" /\ RANK_VAL[Low(a)] >= 5
    ELSE IF i = 6
    THEN a.pos \in {"CO", "BTN"} /\ a.suited /\ RANK_VAL[High(a)] >= 10 - Loosen(a)
    ELSE TRUE

\* the earliest rule whose guard the spot satisfies
FirstMatch(a) == CHOOSE i \in 1..7 : RuleGuard(i, a) /\ \A j \in 1..(i - 1) : ~RuleGuard(j, a)

\* the rule an explanation belongs to
RuleOf(why) ==
    IF why \in {"Big pairs and medium-high pairs", "Small pairs can be raised",
                "From early position, tiny pairs"} THEN 1
    ELSE IF why = "Suited high cards" THEN 2
    ELSE IF why = "Top broadways" THEN 3
    ELSE IF why \in {"In late position, suited connectors",
                     "From middle/out-of-position spots",
                     "From early position, suited connectors"} THEN 4
    ELSE IF why \in {"Suited A-x can make nut flushes", "Advanced default",
                     "Suited A-x is tempting"} THEN 5
    ELSE IF why = "Late position gives you fold equity" THEN 6
    ELSE 7

\* C20: the verdict is the one of the earliest rule, in the order pair,
\* suited big cards, offsuit big cards, suited connectors, suited ace, late
\* suited, default, whose guard the spot satisfies; so a pair is decided by
\* the pair rule whether suited or not (AA offsuit, UTG, Beginner: Raise),
\* and suited KQ and QJ are raised in every position and at every level.
C20_FirstMatchWins ==
    fn.name = "trainer_advice" =>
        LET a == fn.args
        IN /\ RuleOf(ret.why) = FirstMatch(a)
           /\ High(a) = Low(a) => RuleOf(ret.why) = 1
           /\ Hand(a) = <<"A", "A">> => ret.action = "Raise"
           /\ a.suited /\ Hand(a) \in {<<"K", "Q">>, <<"Q", "J">>}
                 => ret.action = "Raise" /\ RuleOf(ret.why) = 2

\* C20 witness: suited KQ under the gun, which satisfies the guards of the
\* suited big cards and of the suited connectors, is raised.
C20_Witness ==
    /\ fn.name = "trainer_advice"
    /\ Hand(fn.args) = <<"K", "Q">> /\ fn.args.suited /\ fn.args.pos = "UTG"
    /\ RuleGuard(2, fn.args) /\ RuleGuard(4, fn.args)
    /\ ret.action = "Raise"

\* C20 witness: AA offsuit, UTG, Beginner is raised by the pair rule.
C20_WitnessAces ==
    /\ fn.name = "trainer_advice"
    /\ fn.args.r1 = "A" /\ fn.args.r2 = "A" /\ ~fn.args.suited
    /\ fn.args.pos = "UTG" /\ fn.args.level = "Beginner"
    /\ RuleGuard(1, fn.args) /\ RuleGuard(3, fn.args)
    /\ ret = Verdict("Raise", "Big pairs and medium-high pairs")

----------------------------------------------------------------------------
(* The classifier rule by rule *)

IsAdvice(a) == fn.name = "trainer_advice" /\ fn.args = a
Mid(a) == a.pos \in {"HJ", "SB"}
Late(a) == a.pos \in {"CO", "BTN"}

\* C21 as stated: a pair is raised if its rank is at least the loosen-th of
\* [9,8,7]; otherwise it is raised exactly when the position is mid or late
\* and its rank is at least the loosen-th of [6,5,4]; otherwise folded.
C21_PairRuleAsStated ==
    fn.name = "trainer_advice" /\ High(fn.args) = Low(fn.args) =>
        LET a == fn.args
            rank == RANK_VAL[High(a)]
        IN ret.action = IF rank >= 9 - Loosen(a) THEN "Raise"
                        ELSE IF (Mid(a) \/ Late(a)) /\ rank >= 6 - Loosen(a) THEN "Raise"
                        ELSE "Fold"

\* C21: a pair is raised if its rank is at least the loosen-th of [9,8,7];
\* otherwise it is raised exactly when the position is late (CO, BTN), or the
\* position is mid (HJ, SB) and its rank is at least the loosen-th of
\* [6,5,4]; otherwise folded.
C21_PairRule ==
    fn.name = "trainer_advice" /\ High(fn.args) = Low(fn.args) =>
        LET a == fn.args
            rank == RANK_VAL[High(a)]
        IN ret.action = IF rank >= 9 - Loosen(a) THEN "Raise"
                        ELSE IF Late(a) \/ (Mid(a) /\ rank >= 6 - Loosen(a)) THEN "Raise"
                        ELSE "Fold"

\* C21 witness: 22 on the button at Beginner, below both cuts, is raised.
C21_Witness ==
    /\ IsAdvice([r1 |-> "2", r2 |-> "2", suited |-> FALSE, pos |-> "BTN",
                 level |-> "Beginner"])
    /\ ret = Verdict("Raise", "Small pairs can be raised")

\* C21 witness: 55 in the hijack at Beginner, below the middle cut, is folded.
C21_WitnessMid ==
    /\ IsAdvice([r1 |-> "5", r2 |-> "5", suited |-> FALSE, pos |-> "HJ",
                 level |-> "Beginner"])
    /\ ret.action = "Fold"

\* the connector set of the level, without the two the suited big cards take
WidenedConnectors(loosen) ==
    {<<"9", "8">>, <<"T", "9">>, <<"J", "T">>, <<"8", "7">>}
        \cup (IF loosen >= 1 THEN {<<"7", "6">>, <<"9", "7">>, <<"T", "8">>} ELSE {})
        \cup (IF loosen >= 2 THEN {<<"6", "5">>, <<"8", "6">>, <<"J", "9">>} ELSE {})

\* C22: a suited non-pair hand that the suited big cards rule does not match
\* and that is in the connector set widened for the level is raised in CO and
\* BTN, called in HJ and SB and folded in UTG.
C22_SuitedConnectors ==
    fn.name = "trainer_advice" =>
        LET a == fn.args
        IN a.suited /\ High(a) # Low(a) /\ ~RuleGuard(2, a)
             /\ Hand(a) \in WidenedConnectors(Loosen(a))
           => ret.action = IF Late(a) THEN "Raise" ELSE IF Mid(a) THEN "Call" ELSE "Fold"

\* C22 witness: 98 suited at Beginner is raised on the button.
C22_Witness ==
    /\ IsAdvice([r1 |-> "9", r2 |-> "8", suited |-> TRUE, pos |-> "BTN",
                 level |-> "Beginner"])
    /\ ret = Verdict("Raise", "In late position, suited connectors")

\* C22 witness: 98 suited at Beginner is folded under the gun.
C22_WitnessEarly ==
    /\ IsAdvice([r1 |-> "9", r2 |-> "8", suited |-> TRUE, pos |-> "UTG",
                 level |-> "Beginner"])
    /\ ret = Verdict("Fold", "From early position, suited connectors")

\* C22 witness: J9 suited, in the set at Advanced only, is called in the hijack.
C22_WitnessWidened ==
    /\ IsAdvice([r1 |-> "9", r2 |-> "J", suited |-> TRUE, pos |-> "HJ",
                 level |-> "Advanced"])
    /\ <<"J", "9">> \notin WidenedConnectors(1)
    /\ ret = Verdict("Call", "From middle/out-of-position spots")

\* C23: a suited hand with an ace and a second card of 5 or more that no
\* earlier rule matches is raised in mid or late position; under the gun it
\* is called when the level is Advanced and folded otherwise.
C23_SuitedAce ==
    fn.name = "trainer_advice" =>
        LET a == fn.args
        IN a.suited /\ High(a) = "A" /\ RANK_VAL[Low(a)] >= 5
             /\ (\A j \in 1..4 : ~RuleGuard(j, a))
           => ret.action = IF Mid(a) \/ Late(a) THEN "Raise"
                           ELSE IF normal_level(a.level) = "Advanced" THEN "Call"
                           ELSE "Fold"

\* C23 witness: A5 suited under the gun is called at Advanced.
C23_Witness ==
    /\ IsAdvice([r1 |-> "A", r2 |-> "5", suited |-> TRUE, pos |-> "UTG",
                 level |-> "Advanced"])
    /\ ret = Verdict("Call", "Advanced default")

\* C23 witness: A9 suited under the gun is folded at Intermediate.
C23_WitnessFold ==
    /\ IsAdvice([r1 |-> "A", r2 |-> "9", suited |-> TRUE, pos |-> "UTG",
                 level |-> "Intermediate"])
    /\ ret = Verdict("Fold", "Suited A-x is tempting")

\* C24: a spot that none of the pair, suited big cards, offsuit big cards,
\* suited connector and suited ace rules matches is raised exactly when the
\* position is late, the hand is suited and its high card is at least the
\* loosen-th of [T,9,8]; otherwise it is folded with an explanation that
\* names the level in force.
C24_LateSuitedOrDefault ==
    fn.name = "trainer_advice" /\ (\A j \in 1..5 : ~RuleGuard(j, fn.args)) =>
        LET a == fn.args
        IN IF Late(a) /\ a.suited /\ RANK_VAL[High(a)] >= 10 - Loosen(a)
           THEN ret.action = "Raise"
           ELSE ret = Verdict("Fold",
                              "Default fundamentals (" \o normal_level(a.level) \o ")")

\* C24 witness: 96 suited in the cutoff, below the Beginner cut and in no
\* connector set, is raised at Intermediate.
C24_Witness ==
    /\ IsAdvice([r1 |-> "9", r2 |-> "6", suited |-> TRUE, pos |-> "CO",
                 level |-> "Intermediate"])
    /\ ret = Verdict("Raise", "Late position gives you fold equity")

\* C24 witness: 72 offsuit under the gun is folded by default, the
\* explanation naming Beginner for a level text that is none of the three.
C24_WitnessDefault ==
    /\ IsAdvice([r1 |-> "7", r2 |-> "2", suited |-> FALSE, pos |-> "UTG",
                 level |-> "Expert"])
    /\ ret = Verdict("Fold", "Default fundamentals (Beginner)")

\* C26: the classifier is symmetric in its two ranks: the verdict on
\* (rank1, rank2) is the verdict, action and explanation, on (rank2, rank1)
\* with the same suitedness, position and level.
C26_RankSymmetry ==
    fn.name = "trainer_advice" =>
        ret = trainer_advice(fn.args.r2, fn.args.r1, fn.args.suited, fn.args.pos,
                             fn.args.level)

\* C26 witness: K then A offsuit, the lower rank first, is raised as AK is.
C26_Witness ==
    /\ IsAdvice([r1 |-> "K", r2 |-> "A", suited |-> FALSE, pos |-> "UTG",
                 level |-> "Beginner"])
    /\ RANK_VAL[fn.args.r1] < RANK_VAL[fn.args.r2]
    /\ ret = Verdict("Raise", "Top broadways")

\* C28: an offsuit non-pair hand is raised exactly when it is AK, AQ or KQ and
\* folded otherwise, whatever the position and the level; no offsuit hand is
\* ever called.
C28_OffsuitHands ==
    fn.name = "trainer_advice" /\ ~fn.args.suited =>
        LET a == fn.args
        IN /\ High(a) # Low(a) =>
                ret.action = IF Hand(a) \in {<<"A", "K">>, <<"A", "Q">>, <<"K", "Q">>}
                             THEN "Raise" ELSE "Fold"
           /\ ret.action # "Call"

\* C28 witness: AQ offsuit is raised under the gun at Beginner.
C28_Witness ==
    /\ IsAdvice([r1 |-> "A", r2 |-> "Q", suited |-> FALSE, pos |-> "UTG",
                 level |-> "Beginner"])
    /\ ret.action = "Raise"

\* C28 witness: AJ offsuit is folded on the button at Advanced.
C28_WitnessFold ==
    /\ IsAdvice([r1 |-> "A", r2 |-> "J", suited |-> FALSE, pos |-> "BTN",
                 level |-> "Advanced"])
    /\ ret.action = "Fold"

\* Fold < Call < Raise, Beginner < Intermediate < Advanced
ActionOrder(action) == IF action = "Fold" THEN 0 ELSE IF action = "Call" THEN 1 ELSE 2
LevelOrder(level) == IF level = "Beginner" THEN 0 ELSE IF level = "Intermediate" THEN 1 ELSE 2

\* C29: the classifier is monotone in the level: with Fold < Call < Raise,
\* for every hand, suitedness and position the action at a level is at most
\* the action at every higher level.
C29_MonotoneInLevel ==
    fn.name = "trainer_advice" /\ fn.args.level \in Levels =>
        \A higher \in Levels :
            LevelOrder(higher) >= LevelOrder(fn.args.level) =>
                ActionOrder(ret.action)
                    <= ActionOrder(trainer_advice(fn.args.r1, fn.args.r2, fn.args.suited,
                                                  fn.args.pos, higher).action)

\* C29 witness: 55 in the hijack, folded at Beginner, is raised at Intermediate.
C29_Witness ==
    /\ IsAdvice([r1 |-> "5", r2 |-> "5", suited |-> FALSE, pos |-> "HJ",
                 level |-> "Beginner"])
    /\ ret.action = "Fold"
    /\ trainer_advice("5", "5", FALSE, "HJ", "Intermediate").action = "Raise"

\* C29 witness: T8 suited in the cutoff, raised at Beginner by the late
\* suited rule, is raised at Intermediate by the connector rule.
C29_WitnessRuleChange ==
    /\ IsAdvice([r1 |-> "T", r2 |-> "8", suited |-> TRUE, pos |-> "CO",
                 level |-> "Beginner"])
    /\ ret = Verdict("Raise", "Late position gives you fold equity")
    /\ trainer_advice("T", "8", TRUE, "CO", "Intermediate")
          = Verdict("Raise", "In late position, suited connectors")

----------------------------------------------------------------------------
(* Settings, presets, buttons *)

\* the values typed are valid: every entry parses and the ranges hold
ValidSettings(inp) ==
    /\ inp.parses
    /\ inp.players \in 2..9
    /\ inp.start_stack \in 20..10000
    /\ 0 < inp.sb /\ inp.sb < inp.bb

\* C25: Change Settings replaces the settings by the values typed and
\* re-creates the engine only when every entry parses, players is in 2..9,
\* the starting stack in 20..10000 and 0 < small blind < big blind, and both
\* iteration counts of the new settings are then at least 60; on any other
\* input the settings and the engine stay as they are and an error is shown.
C25_SettingsValidated ==
    [][cb' = "user:apply_settings" =>
        LET inp == tr'[1].inp
        IN IF ValidSettings(inp)
           THEN /\ settings'.players = inp.players
                /\ settings'.start_stack = inp.start_stack
                /\ settings'.sb = inp.sb /\ settings'.bb = inp.bb
                /\ settings'.seed = inp.seed
                /\ settings'.cpu_aggression = inp.cpu_aggression
                /\ settings'.cpu_randomness = inp.cpu_randomness
                /\ settings'.mc_iters_preflop >= 60
                /\ settings'.mc_iters_preflop >= inp.mc_pre
                /\ settings'.mc_iters_preflop \in {60, inp.mc_pre}
                /\ settings'.mc_iters_postflop >= 60
                /\ settings'.mc_iters_postflop >= inp.mc_post
                /\ settings'.mc_iters_postflop \in {60, inp.mc_post}
                /\ engine' = PokerEngine
                /\ Count(tr', "err.set") = 0
           ELSE /\ settings' = settings
                /\ engine' = engine
                /\ Count(tr', "err.set") = 1]_vars

\* C25 witness: nine players with iteration counts 10 and 59 typed during a
\* hand: the settings have nine players and counts 60, the hand is gone.
C25_Witness ==
    /\ cb = "user:apply_settings"
    /\ ValidSettings(tr[1].inp)
    /\ tr[1].inp.players = 9 /\ tr[1].inp.mc_pre = 10 /\ tr[1].inp.mc_post = 59
    /\ settings.players = 9
    /\ settings.mc_iters_preflop = 60 /\ settings.mc_iters_postflop = 60
    /\ obs.hand_active /\ engine = PokerEngine

\* C25 witness: a small blind equal to the big blind typed during a hand,
\* after the settings were changed once: error, same settings, same hand.
C25_WitnessInvalid ==
    /\ cb = "user:apply_settings"
    /\ tr[1].inp.sb = tr[1].inp.bb
    /\ tr[2] = Ev("err.set", "Require 0 < SB < BB.", 0, FALSE, FALSE)
    /\ settings # GameSettings /\ settings.sb # tr[1].inp.sb
    /\ engine.hand_active /\ engine = obs

\* C25 witness: an entry that does not parse is reported, nothing changes.
C25_WitnessUnparsed ==
    /\ cb = "user:apply_settings"
    /\ ~tr[1].inp.parses
    /\ tr[2] = Ev("err.set", "Invalid values.", 0, FALSE, FALSE)
    /\ settings = GameSettings /\ engine = obs

C27_WitnessNone ==
    /\ engine.hand_active /\ ~engine.waiting_for_human
    /\ buttons = {}

\* the preset a name selects
PresetOf(name) ==
    IF name \in {"Beginner", "Normal", "Strong", "Pro"}
    THEN CPU_PRESETS[name] ELSE CPU_PRESETS["Normal"]

\* C30: Change CPU Preset replaces the CPU aggression, the CPU randomness
\* and the two iteration counts by the values of the preset, of Normal for a
\* name that is no preset, and leaves players, starting stack, small blind,
\* big blind and seed as they were.
C30_PresetFrame ==
    [][cb' = "user:apply_cpu_preset" =>
        LET p == PresetOf(tr'[1].a)
        IN /\ settings'.players = settings.players
           /\ settings'.start_stack = settings.start_stack
           /\ settings'.sb = settings.sb
           /\ settings'.bb = settings.bb
           /\ settings'.seed = settings.seed
           /\ settings'.cpu_aggression = p.cpu_aggression
           /\ settings'.cpu_randomness = p.cpu_randomness
           /\ settings'.mc_iters_preflop = p.mc_pre
           /\ settings'.mc_iters_postflop = p.mc_post]_vars

\* C30 witness: Strong chosen after the dialog set 3 players, stack 500,
\* blinds 1/2 and seed 7: those stay, the four CPU values are Strong's.
C30_Witness ==
    /\ cb = "user:apply_cpu_preset" /\ tr[1] = PresetEv("Strong")
    /\ settings = [players |-> 3, start_stack |-> 500, sb |-> 1, bb |-> 2, seed |-> 7,
                   cpu_aggression |-> 115, cpu_randomness |-> 25,
                   mc_iters_preflop |-> 450, mc_iters_postflop |-> 650]

\* C30 witness: a name that is no preset, after the dialog's values: the
\* four CPU values are Normal's.
C30_WitnessUnknown ==
    /\ cb = "user:apply_cpu_preset" /\ tr[1].a \notin DOMAIN CPU_PRESETS
    /\ settings.players = 3 /\ settings.seed = 7
    /\ settings.cpu_aggression = 100 /\ settings.cpu_randomness = 45
    /\ settings.mc_iters_preflop = 220 /\ settings.mc_iters_postflop = 320

----------------------------------------------------------------------------
(* The auto-next-hand handle *)

\* C31: after every callback the stored auto-next-hand handle is set if and
\* only if an auto-next-hand timer is pending, and it is then the handle of
\* that timer; a timer that fired or was cancelled leaves no handle behind.
C31_HandleMatchesScheduler ==
    /\ auto_next_after_id # None <=> AutoTimers(timers) # {}
    /\ \A i \in AutoTimers(timers) : timers[i].id = auto_next_after_id

\* C31 witness: the timer was cancelled by the refresh of a started hand:
\* no handle, no timer.
C31_Witness ==
    /\ Count(tr, "after_cancel") = 1
    /\ engine.hand_active
    /\ auto_next_after_id = None /\ AutoTimers(timers) = {}

\* C31 witness: the timer fired and started a hand: no handle, no timer.
C31_WitnessFired ==
    /\ cb = "after:auto_next_hand_if_idle"
    /\ HasStart(tr) /\ engine.hand_active
    /\ auto_next_after_id = None /\ AutoTimers(timers) = {}

\* C31 witness: the timer fired, the hand it started ended at once, and the
\* refresh of the same callback scheduled the next timer and stored its
\* handle.
C31_WitnessNext ==
    /\ cb = "after:auto_next_hand_if_idle"
    /\ HasStart(tr) /\ Scheduled(tr, "auto_next_hand_if_idle")
    /\ auto_next_after_id # None
    /\ \E i \in AutoTimers(timers) : timers[i].id = auto_next_after_id

====
